---- MODULE Spec2Model ----
(***************************************************************************)
(* GFC Explorer (streamlit_app.py): the reference tables loaded into the   *)
(* in-memory database, the cached query boundary run_query, the two        *)
(* aggregation queries (per-tract min/max HPI and loss, per-year average   *)
(* HPI of a CBSA) and the script run that consumes their results.          *)
(*                                                                         *)
(* Text is a sequence of one-character strings.  A nullable text cell is   *)
(* a text or NULL; a nullable number is <<n>> or <<>> (SQL NULL / NaN).    *)
(* A rational is a record [num, den].  latitude/longitude (avg of lat/lng) *)
(* are carried by no modelled computation and are left out of the rows.    *)
(* YEAR cells are integers; HPI and population cells are texts over        *)
(* digits, a sign and letters, read as integers (no fraction, no NaN or    *)
(* infinity, no float rounding).  A table is a set of distinct rows; a     *)
(* query result without ORDER BY is a bag of rows.                         *)
(***************************************************************************)
EXTENDS Integers, Sequences, FiniteSets, TLC

(* ------------------------------ bounds -------------------------------- *)

\* Rows of the tract file, rows of the ZIP file, clock ticks of a session.
MaxTractRows == 4
MaxZipRows == 3
MaxTicks == 2

(* ------------------------------ values -------------------------------- *)

\* SQL NULL in a text column (a cell that held the null sentinel).
NULL == <<"NULL">>

\* Python None (session_state.selected_cbsa before the first selection).
None == <<"None">>

\* read_csv(..., nullstr='.'): the sentinel that becomes NULL on load.
nullstr == <<".">>

\* read_csv: a cell equal to the sentinel is loaded as NULL.
LoadCell(c) == IF c = nullstr THEN NULL ELSE c

\* left(tract, n)
Left(s, n) == SubSeq(s, 1, IF Len(s) < n THEN Len(s) ELSE n)

\* Width of the county code at the head of a tract id: left(tract, 5).
FipsLen == 5

\* The window of the aggregation: BETWEEN 2005 AND 2013.
YearLo == 2005
YearHi == 2013

\* st.cache_data(ttl=600): seconds a cached result stays valid.
Ttl == 600

\* "* 100" of the percentage loss.
Percent == 100

Digits == {"0", "1", "2", "3", "4", "5", "6", "7", "8", "9"}

DigitVal(c) ==
    CASE c = "0" -> 0 [] c = "1" -> 1 [] c = "2" -> 2 [] c = "3" -> 3
      [] c = "4" -> 4 [] c = "5" -> 5 [] c = "6" -> 6 [] c = "7" -> 7
      [] c = "8" -> 8 [] c = "9" -> 9

RECURSIVE ParseDigits(_, _)
\* Value of a digit string, most significant digit first, onto acc.
ParseDigits(s, acc) ==
    IF s = <<>> THEN acc
    ELSE ParseDigits(Tail(s), acc * 10 + DigitVal(Head(s)))

AllDigits(s) == s # <<>> /\ \A i \in 1..Len(s) : s[i] \in Digits

\* TRY_CAST(cell AS FLOAT) / TRY_CAST(cell AS INTEGER) on the integral
\* texts of the model: NULL for NULL and for a text that is no number.
TRY_CAST(cell) ==
    IF cell = NULL THEN <<>>
    ELSE IF AllDigits(cell) THEN <<ParseDigits(cell, 0)>>
    ELSE IF cell # <<>> /\ Head(cell) = "-" /\ AllDigits(Tail(cell))
         THEN <<0 - ParseDigits(Tail(cell), 0)>>
    ELSE <<>>

\* TRY_CAST(hpi.HPI AS FLOAT) > 0 : NULL > 0 is NULL, which WHERE rejects.
HpiPositiveLoose(v) == v # <<>> /\ v[1] >= 0
HpiPositive(v) == v # <<>> /\ v[1] > 0

\* TRY_CAST(YEAR AS INTEGER) BETWEEN 2005 AND 2013
InWindowLoose(y) == y <= YearHi
InWindow(y) == YearLo <= y /\ y <= YearHi

\* ILIKE folds case before comparing.
Lower(c) ==
    CASE c = "A" -> "a" [] c = "B" -> "b" [] c = "D" -> "d" [] c = "Z" -> "z"
      [] OTHER -> c

RECURSIVE ILIKE(_, _)
\* text ILIKE pattern: case-insensitive, % any run, _ any one character.
ILIKE(s, p) ==
    IF p = <<>> THEN s = <<>>
    ELSE IF Head(p) = "%"
         THEN ILIKE(s, Tail(p)) \/ (s # <<>> /\ ILIKE(Tail(s), p))
    ELSE /\ s # <<>>
         /\ (Head(p) = "_" \/ Lower(Head(s)) = Lower(Head(p)))
         /\ ILIKE(Tail(s), Tail(p))

RECURSIVE SumSet(_)
SumSet(S) == IF S = {} THEN 0 ELSE LET x == CHOOSE x \in S : TRUE
                                   IN x + SumSet(S \ {x})

MinOf(S) == CHOOSE x \in S : \A y \in S : x <= y
MaxOf(S) == CHOOSE x \in S : \A y \in S : y <= x

(* ----------------------------- rationals ------------------------------ *)

Rat(n, d) == [num |-> n, den |-> d]
RatLess(a, b) == a.num * b.den < b.num * a.den
RatEq(a, b) == a.num * b.den = b.num * a.den
RatSub(a, b) == Rat(a.num * b.den - b.num * a.den, a.den * b.den)
RatDiv(a, b) == IF b.num < 0 THEN Rat(0 - a.num * b.den, 0 - a.den * b.num)
                ELSE Rat(a.num * b.den, a.den * b.num)
RatTimes(a, k) == Rat(a.num * k, a.den)

(* ------------------------- reference tables --------------------------- *)

VARIABLES
    hpi_tract,      \* rows [tract, YEAR, HPI, fips]          (lines 19-24)
    hpi_zip,        \* rows [zip, YEAR, HPI]                  (lines 25-29)
    zip_cbsa,       \* rows [ZIP, CBSA]                       (lines 30-33)
    zip_attr,       \* rows [zip, county_fips, population]    (lines 34-37)
    zip_pop,        \* rows [ZIP, POPULATION]                 (lines 38-41)
    fips_cbsa,      \* rows [fipsstatecode, fipscountycode, cbsacode, fips]
    cbsa,           \* rows [code, name]                      (lines 47-50)
    selected_cbsa,  \* st.session_state.selected_cbsa
    widget,         \* the value st.selectbox returns in this run
    cache,          \* st.cache_data store of run_query: query -> entry
    now,            \* seconds since the session started
    pc,             \* "idle" | "sidebar" | "main"
    out_df,         \* the tract table of the run
    hpi_by_year,    \* the year series of the run
    percent_loss,   \* <<rational>> once computed in the run, else <<>>
    total_population, \* <<n>> once computed in the run, else <<>>
    errors,         \* st.error messages surfaced in the run (a sequence)
    hits,           \* queries of the run that the cache served
    raised,         \* the exception that ended the run, or "none"
    started         \* whether the session has run the script before

tables == <<hpi_tract, hpi_zip, zip_cbsa, zip_attr, zip_pop, fips_cbsa, cbsa>>
vars == <<hpi_tract, hpi_zip, zip_cbsa, zip_attr, zip_pop, fips_cbsa, cbsa,
          selected_cbsa, widget, cache, now, pc, out_df, hpi_by_year,
          percent_loss, total_population, errors, hits, raised, started>>

\* CREATE TABLE hpi_tract AS SELECT *, left(tract, 5) as fips FROM read_csv
LoadHpiTract(csv) ==
    { [tract |-> r.tract, YEAR |-> r.YEAR, HPI |-> LoadCell(r.HPI),
       fips |-> Left(r.tract, FipsLen)] : r \in csv }

\* CREATE TABLE hpi_zip AS SELECT * FROM read_csv
LoadHpiZip(csv) ==
    { [zip |-> r.zip, YEAR |-> r.YEAR, HPI |-> LoadCell(r.HPI)] : r \in csv }

\* CREATE TABLE zip_attr AS SELECT * FROM read_csv
LoadZipAttr(csv) ==
    { [zip |-> r.zip, county_fips |-> r.county_fips,
       population |-> LoadCell(r.population)] : r \in csv }

\* CREATE TABLE zip_pop AS SELECT * FROM read_csv
LoadZipPop(csv) ==
    { [ZIP |-> r.ZIP, POPULATION |-> LoadCell(r.POPULATION)] : r \in csv }

\* CREATE TABLE fips_cbsa AS SELECT *, (fipsstatecode || fipscountycode) as fips
LoadFipsCbsa(csv) ==
    { [fipsstatecode |-> r.fipsstatecode, fipscountycode |-> r.fipscountycode,
       cbsacode |-> r.cbsacode,
       fips |-> r.fipsstatecode \o r.fipscountycode] : r \in csv }

(* ------------------------------ queries ------------------------------- *)

\* The interpolated part of an f-string query: '{selected_cbsa}'.
PyStr(x) == IF x = None THEN <<"N", "o", "n", "e">> ELSE x
Quoted(x) == <<"'">> \o PyStr(x) \o <<"'">>

\* The three query texts; two differ only in the interpolated name.
OptionsSql == [kind |-> "options", lit |-> <<>>]
TractSql(name) == [kind |-> "tract", lit |-> Quoted(name)]
YearSql(name) == [kind |-> "year", lit |-> Quoted(name)]

RECURSIVE ScanLiteral(_, _)
\* The SQL lexer on a string literal, after its opening quote: '' is an
\* escaped quote, a lone ' closes the literal.  Over the alphabet of the
\* model any text left after the closing quote is a syntax error, and so
\* is a literal that never closes.
ScanLiteral(s, acc) ==
    IF s = <<>> THEN [ok |-> FALSE, value |-> acc]
    ELSE IF Head(s) # "'" THEN ScanLiteral(Tail(s), Append(acc, Head(s)))
    ELSE IF Len(s) >= 2 /\ s[2] = "'"
         THEN ScanLiteral(Tail(Tail(s)), Append(acc, "'"))
    ELSE [ok |-> Len(s) = 1, value |-> acc]

\* The pattern the parser reads out of the interpolated literal.
ParseLiteral(lit) ==
    IF lit = <<>> \/ Head(lit) # "'" THEN [ok |-> FALSE, value |-> <<>>]
    ELSE ScanLiteral(Tail(lit), <<>>)

\* The row a LEFT JOIN supplies when nothing matches (all its columns NULL).
NoRow == [absent |-> TRUE]
LeftJoin(matches) == IF matches = {} THEN {NoRow} ELSE matches

\* pd.DataFrame(): no columns, no rows.
EmptyFrame == [columns |-> {}, rows |-> <<>>]

TractColumns == {"cbsa_name", "fips", "latitude", "longitude", "population",
                 "min_hpi", "max_hpi", "min_year", "max_year", "hpi_loss"}
YearColumns == {"year", "avg_hpi"}
OptionColumns == {"cbsa_name"}

\* FROM hpi_tract hpi left join fips_cbsa ... left join zip_attr ...
\* left join cbsa ...: tuples <<hpi, fips_cbsa, zip_attr, cbsa>>.
TractJoined ==
    UNION { UNION { UNION { { <<h, fc, za, c>> :
        c \in LeftJoin(IF fc = NoRow THEN {}
                       ELSE {c \in cbsa : fc.cbsacode = c.code}) } :
        za \in LeftJoin({za \in zip_attr : h.fips = za.county_fips}) } :
        fc \in LeftJoin({fc \in fips_cbsa : h.fips = fc.fips}) } :
        h \in hpi_tract }

\* WHERE cbsa."CBSA Name" ILIKE '...' AND YEAR BETWEEN ... AND HPI > 0
TractWhere(pattern) ==
    { j \in TractJoined :
        /\ j[4] # NoRow
        /\ j[4].name # NULL
        /\ ILIKE(j[4].name, pattern)
        /\ InWindow(j[1].YEAR)
        /\ HpiPositive(TRY_CAST(j[1].HPI)) }

\* sum(distinct TRY_CAST(zip_attr.population AS INTEGER)) over a group
SumDistinctPopulation(G) ==
    LET vals == { TRY_CAST(j[3].population)[1] :
                    j \in { j \in G : /\ j[3] # NoRow
                                      /\ TRY_CAST(j[3].population) # <<>> } }
    IN  IF vals = {} THEN <<>> ELSE <<SumSet(vals)>>

\* The CTE hpi_per_tract: GROUP BY 1,2 with its aggregates.
hpi_per_tract(pattern) ==
    LET W == TractWhere(pattern)
        keys == { <<j[4].name, j[1].fips>> : j \in W }
    IN  { LET G == { j \in W : j[4].name = k[1] /\ j[1].fips = k[2] }
              hp == { TRY_CAST(j[1].HPI)[1] : j \in G }
          IN  [cbsa_name |-> k[1], fips |-> k[2],
               population |-> SumDistinctPopulation(G),
               min_hpi |-> MinOf(hp), max_hpi |-> MaxOf(hp)] : k \in keys }

\* left join hpi_tract hmin on fips and TRY_CAST(hmin.HPI AS FLOAT) = min_hpi
Hmin(g) ==
    LeftJoin({ r \in hpi_tract : /\ r.fips = g.fips
                                 /\ TRY_CAST(r.HPI) = <<g.min_hpi>> })

\* left join hpi_tract hmax on fips and TRY_CAST(hmax.HPI AS FLOAT) = max_hpi
Hmax(g) ==
    LeftJoin({ r \in hpi_tract : /\ r.fips = g.fips
                                 /\ TRY_CAST(r.HPI) = <<g.max_hpi>> })

YearOf(r) == IF r = NoRow THEN <<>> ELSE <<r.YEAR>>

\* (min_hpi/max_hpi - 1): NULL when the divisor is 0.
HpiLoss(min_hpi, max_hpi) ==
    IF max_hpi = 0 THEN <<>>
    ELSE <<RatSub(RatDiv(Rat(min_hpi, 1), Rat(max_hpi, 1)), Rat(1, 1))>>

\* One output row of the final select.
TractRow(g, rmin, rmax) ==
    [cbsa_name |-> g.cbsa_name, fips |-> g.fips, population |-> g.population,
     min_hpi |-> g.min_hpi, max_hpi |-> g.max_hpi,
     min_year |-> YearOf(rmin), max_year |-> YearOf(rmax),
     hpi_loss |-> HpiLoss(g.min_hpi, g.max_hpi)]

\* The final select: one output row per <<group, hmin row, hmax row>>.
\* The rows are a bag (row -> how many times it occurs).
TractQuery(pattern) ==
    LET T == UNION { { <<g, rmin, rmax>> : rmin \in Hmin(g), rmax \in Hmax(g) } :
                     g \in hpi_per_tract(pattern) }
        R == { TractRow(t[1], t[2], t[3]) : t \in T }
    IN  [ r \in R |->
            Cardinality({ t \in T : TractRow(t[1], t[2], t[3]) = r }) ]

\* FROM hpi_zip hpi JOIN zip_cbsa ... JOIN cbsa ... WHERE ...: tuples
\* <<hpi_zip, zip_cbsa, cbsa>>.
YearWhere(pattern) ==
    { j \in UNION { UNION { { <<h, zc, c>> :
            c \in {c \in cbsa : zc.CBSA = c.code} } :
            zc \in {zc \in zip_cbsa : h.zip = zc.ZIP} } :
            h \in hpi_zip } :
        /\ j[3].name # NULL
        /\ ILIKE(j[3].name, pattern)
        /\ InWindow(j[1].YEAR)
        /\ HpiPositive(TRY_CAST(j[1].HPI)) }

RECURSIVE SumHpi(_)
\* The sum AVG takes over the joined rows of a group (one term per row).
SumHpi(G) ==
    IF G = {} THEN 0
    ELSE LET j == CHOOSE j \in G : TRUE
         IN  TRY_CAST(j[1].HPI)[1] + SumHpi(G \ {j})

RECURSIVE OrderByYear(_)
\* ORDER BY YEAR::int (ascending) of rows with distinct years.
OrderByYear(R) ==
    IF R = {} THEN <<>>
    ELSE LET first == CHOOSE r \in R : \A q \in R : r.year <= q.year
         IN  <<first>> \o OrderByYear(R \ {first})

\* SELECT YEAR::int as year, AVG(TRY_CAST(HPI AS FLOAT)) as avg_hpi
\* ... GROUP BY YEAR::int ORDER BY YEAR::int
YearQuery(pattern) ==
    LET W == YearWhere(pattern)
        years == { j[1].YEAR : j \in W }
    IN  OrderByYear({ LET G == { j \in W : j[1].YEAR = y }
                      IN  [year |-> y,
                           avg_hpi |-> Rat(SumHpi(G), Cardinality(G))] :
                      y \in years })

\* SUM(TRY_CAST(zp.POPULATION AS INTEGER)) of a CBSA name over the join
\* cbsa JOIN zip_cbsa JOIN zip_pop: <<n>>, or <<>> when every term is NULL.
RECURSIVE SumPop(_)
SumPop(G) ==
    IF G = {} THEN 0
    ELSE LET j == CHOOSE j \in G : TRUE
         IN  TRY_CAST(j[3].POPULATION)[1] + SumPop(G \ {j})

OptionsJoined ==
    UNION { UNION { { <<c, zc, zp>> :
        zp \in {zp \in zip_pop : zc.ZIP = zp.ZIP} } :
        zc \in {zc \in zip_cbsa : c.code = zc.CBSA} } :
        c \in cbsa }

OptionTotal(name) ==
    LET G == { j \in OptionsJoined :
                 j[1].name = name /\ TRY_CAST(j[3].POPULATION) # <<>> }
    IN  IF G = {} THEN <<>> ELSE <<SumPop(G)>>

\* SELECT DISTINCT c."CBSA Name" ... GROUP BY c."CBSA Name": the names.
OptionsQuery == { j[1].name : j \in OptionsJoined }

\* ORDER BY SUM(...) DESC puts NULL sums last; the order among equal sums
\* is the engine's.  The names that may come first:
TopOptions ==
    { n \in OptionsQuery :
        \A m \in OptionsQuery :
            \/ OptionTotal(m) = <<>>
            \/ (OptionTotal(n) # <<>> /\ OptionTotal(m)[1] <= OptionTotal(n)[1]) }

\* con.sql(query).df() once the interpolated literal has been read.
ExecuteParsed(kind, lit) ==
    IF ~lit.ok THEN [ok |-> FALSE, df |-> EmptyFrame]
    ELSE IF kind = "tract"
    THEN [ok |-> TRUE, df |-> [columns |-> TractColumns,
                               rows |-> TractQuery(lit.value)]]
    ELSE [ok |-> TRUE, df |-> [columns |-> YearColumns,
                               rows |-> YearQuery(lit.value)]]

\* con.sql(query).df(): the frame, or the exception duckdb raises.
Execute(query) ==
    IF query.kind = "options"
    THEN [ok |-> TRUE, df |-> [columns |-> OptionColumns, rows |-> OptionsQuery]]
    ELSE ExecuteParsed(query.kind, ParseLiteral(query.lit))

\* try: return df_raw / except Exception as e: st.error(...); return
\* pd.DataFrame()  -- applied to the outcome r of con.sql(query).df().
Propagate(r) ==
    IF r.ok THEN [df |-> r.df, errors |-> <<>>, raised |-> "none"]
    ELSE [df |-> EmptyFrame, errors |-> <<>>, raised |-> "ParserException"]
Catch(r) ==
    IF r.ok THEN [df |-> r.df, errors |-> <<>>, raised |-> "none"]
    ELSE [df |-> EmptyFrame, errors |-> <<"Error running query">>,
          raised |-> "none"]

\* The body of run_query.
run_query_body(query) == Catch(Execute(query))

\* Whether the st.cache_data store holds a live entry for the query.
CacheLive(c, query) == query \in DOMAIN c /\ now - c[query].at < Ttl

\* st.cache_data on a miss: the result r of the body is returned and,
\* unless the body raised, stored under the query text.
CacheStore(query, c, r) ==
    [df |-> r.df, errors |-> r.errors, raised |-> r.raised, hit |-> FALSE,
     cache |-> IF r.raised # "none" THEN c
               ELSE [q \in DOMAIN c \cup {query} |->
                       IF q = query
                       THEN [df |-> r.df, errors |-> r.errors, at |-> now]
                       ELSE c[q]]]

\* @st.cache_data(ttl=600) around run_query: a live entry is returned (its
\* st.error element replayed); otherwise the body runs.
run_query(query, c) ==
    IF CacheLive(c, query)
    THEN [df |-> c[query].df, errors |-> c[query].errors, raised |-> "none",
          hit |-> TRUE, cache |-> c]
    ELSE CacheStore(query, c, run_query_body(query))

(* --------------------------- the consumer ----------------------------- *)

\* hpi_by_year["avg_hpi"].idxmax(): the first position of the largest value
\* (0 stands for the ValueError pandas raises on an empty series).
idxmaxFirstRow(s) == IF s = <<>> THEN 0 ELSE 1
idxmax(s) ==
    IF s = <<>> THEN 0
    ELSE CHOOSE i \in 1..Len(s) :
            /\ \A j \in 1..Len(s) : ~RatLess(s[i].avg_hpi, s[j].avg_hpi)
            /\ \A j \in 1..(i - 1) : RatLess(s[j].avg_hpi, s[i].avg_hpi)

\* hpi_by_year["avg_hpi"].idxmin(): the first position of the smallest value.
idxmin(s) ==
    IF s = <<>> THEN 0
    ELSE CHOOSE i \in 1..Len(s) :
            /\ \A j \in 1..Len(s) : ~RatLess(s[j].avg_hpi, s[i].avg_hpi)
            /\ \A j \in 1..(i - 1) : RatLess(s[i].avg_hpi, s[j].avg_hpi)

\* (min_point["avg_hpi"] - max_point["avg_hpi"]) / max_point["avg_hpi"] * 100
PercentLoss(max_point, min_point) ==
    RatTimes(RatDiv(RatSub(min_point.avg_hpi, max_point.avg_hpi),
                    max_point.avg_hpi), Percent)

RECURSIVE SumPopulation(_, _)
\* out_df["population"].sum(): every row of the frame, NaN skipped.
SumPopulation(bag, R) ==
    IF R = {} THEN 0
    ELSE LET r == CHOOSE r \in R : TRUE
         IN  (IF r.population = <<>> THEN 0 ELSE bag[r] * r.population[1])
             + SumPopulation(bag, R \ {r})

\* if st.session_state.selected_cbsa: (None and '' are falsy)
Truthy(x) == x # None /\ x # <<>>

\* if selected_cbsa != previous_selection: session_state.selected_cbsa = ...
UpdateOnlyFirst(previous_selection, selected) ==
    IF previous_selection = None THEN selected ELSE previous_selection
UpdateSession(previous_selection, selected) ==
    IF selected # previous_selection THEN selected ELSE previous_selection

\* What st.selectbox may return in a run: the first option on the first
\* run, any option the user picked later, None when there are no options.
Selectable ==
    IF OptionsQuery = {} THEN {None}
    ELSE IF started THEN OptionsQuery ELSE TopOptions

(* ------------------------------ actions ------------------------------- *)

\* A script run starts (the first one, or a rerun after a selection).
Rerun ==
    /\ pc = "idle"
    /\ \E v \in Selectable : widget' = v
    /\ pc' = "sidebar"
    /\ started' = TRUE
    /\ out_df' = EmptyFrame
    /\ hpi_by_year' = EmptyFrame
    /\ percent_loss' = <<>>
    /\ total_population' = <<>>
    /\ errors' = <<>>
    /\ hits' = {}
    /\ raised' = "none"
    /\ UNCHANGED <<tables, selected_cbsa, cache, now>>

\* The end of the sidebar block: the results are bound to the run.
SidebarDone(session, opts, tract) ==
    /\ selected_cbsa' = session
    /\ out_df' = tract.df
    /\ cache' = tract.cache
    /\ errors' = opts.errors \o tract.errors
    /\ hits' = (IF opts.hit THEN {OptionsSql} ELSE {})
               \cup (IF tract.hit THEN {TractSql(session)} ELSE {})
    /\ raised' = tract.raised
    /\ pc' = IF tract.raised = "none" THEN "main" ELSE "idle"

\* out_df = run_query(f"... ILIKE '{st.session_state.selected_cbsa}' ...")
SidebarQuery(session, opts) ==
    SidebarDone(session, opts, run_query(TractSql(session), opts.cache))

\* with st.sidebar: the options query, the selectbox, the session update
\* and the tract query (lines 85-138).
Sidebar ==
    /\ pc = "sidebar"
    /\ SidebarQuery(UpdateSession(selected_cbsa, widget),
                    run_query(OptionsSql, cache))
    /\ UNCHANGED <<tables, widget, now, hpi_by_year, percent_loss,
                   total_population, started>>

\* The exception, if any, that ends the main block: the query's own, a
\* missing column (KeyError), idxmax/idxmin of an empty series (ValueError).
MainException(year, imax, imin) ==
    IF year.raised # "none" THEN year.raised
    ELSE IF "avg_hpi" \notin year.df.columns THEN "KeyError"
    ELSE IF imax = 0 \/ imin = 0 THEN "ValueError"
    ELSE IF "latitude" \notin out_df.columns THEN "KeyError"
    ELSE "none"

\* The end of the main block: what the run computed before it ended.
MainDone(year, s, imax, imin, exc) ==
    /\ cache' = year.cache
    /\ hpi_by_year' = IF year.raised = "none" THEN year.df ELSE hpi_by_year
    /\ errors' = errors \o year.errors
    /\ hits' = hits \cup (IF year.hit THEN {YearSql(selected_cbsa)} ELSE {})
    /\ percent_loss' =
         IF /\ year.raised = "none"
            /\ "avg_hpi" \in year.df.columns
            /\ imax # 0 /\ imin # 0
         THEN <<PercentLoss(s[imax], s[imin])>>
         ELSE <<>>
    /\ total_population' =
         IF exc = "none"
         THEN <<SumPopulation(out_df.rows, DOMAIN out_df.rows)>>
         ELSE <<>>
    /\ raised' = exc

\* max_point, min_point and the rest, from the series s of the query.
MainPoints(year, s, imax, imin) ==
    MainDone(year, s, imax, imin, MainException(year, imax, imin))

MainSeries(year, s) == MainPoints(year, s, idxmax(s), idxmin(s))

\* hpi_by_year = run_query(...) and everything computed from it.
MainQuery(year) ==
    MainSeries(year, IF "avg_hpi" \in year.df.columns THEN year.df.rows
                     ELSE <<>>)

\* with st.container(): the year query, its peak and trough, the map and
\* the key statistics (lines 142-273).  An exception ends the run.
MainContent ==
    /\ pc = "main"
    /\ IF ~Truthy(selected_cbsa)
       THEN UNCHANGED <<cache, hpi_by_year, percent_loss, total_population,
                        errors, hits, raised>>
       ELSE MainQuery(run_query(YearSql(selected_cbsa), cache))
    /\ pc' = "idle"
    /\ UNCHANGED <<tables, selected_cbsa, widget, now, out_df, started>>

\* Time passes between and during runs (the clock only matters to the ttl).
Tick ==
    /\ now + Ttl \div 2 <= MaxTicks * (Ttl \div 2)
    /\ now' = now + Ttl \div 2
    /\ UNCHANGED <<tables, selected_cbsa, widget, cache, pc, out_df,
                   hpi_by_year, percent_loss, total_population, errors, hits,
                   raised, started>>

(* --------------------------- the input files -------------------------- *)

\* County codes, tract ids (county code + one more character), ZIPs.
F1 == <<"0", "1", "0", "0", "1">>
F2 == <<"0", "1", "0", "0", "3">>
F3 == <<"0", "2", "0", "0", "1">>
F9 == <<"0", "9", "0", "0", "9">>
Z(c) == <<"1", "0", "0", "0", c>>

\* us_cbsas.csv: two ordinary names, one that differs from another only by
\* case, and one with an apostrophe (as in "Coeur d'Alene, ID").
NameAb == <<"A", "b">>
NameaB == <<"a", "B">>
NameZz == <<"Z", "z">>
NamedA == <<"d", "'", "A">>
CbsaCsv ==
    { [code |-> <<"1">>, name |-> NameAb], [code |-> <<"2">>, name |-> NamedA],
      [code |-> <<"3">>, name |-> NameZz], [code |-> <<"4">>, name |-> NameaB] }

\* us_fips_cbsa.csv: F1 and F2 lie in CBSA 1, F3 in CBSA 4, F9 in none.
FipsCbsaCsv ==
    { [fipsstatecode |-> <<"0", "1">>, fipscountycode |-> <<"0", "0", "1">>,
       cbsacode |-> <<"1">>],
      [fipsstatecode |-> <<"0", "1">>, fipscountycode |-> <<"0", "0", "3">>,
       cbsacode |-> <<"1">>],
      [fipsstatecode |-> <<"0", "2">>, fipscountycode |-> <<"0", "0", "1">>,
       cbsacode |-> <<"4">>] }

\* us_zip5_attr.csv: three ZIPs of F1 (two with the same population figure),
\* one with an unreadable figure, none for F2, one for F3.
ZipAttrCsv ==
    { [zip |-> Z("1"), county_fips |-> F1, population |-> <<"1", "0">>],
      [zip |-> Z("2"), county_fips |-> F1, population |-> <<"1", "0">>],
      [zip |-> Z("3"), county_fips |-> F1, population |-> <<"7">>],
      [zip |-> Z("4"), county_fips |-> F1, population |-> <<"N", "/", "A">>],
      [zip |-> Z("5"), county_fips |-> F3, population |-> <<"5">>] }

\* us_zip5_cbsa.csv and us_zip5_population.csv: CBSAs 1, 2 and 3 have ZIPs.
ZipCbsaCsv ==
    { [ZIP |-> Z("1"), CBSA |-> <<"1">>], [ZIP |-> Z("2"), CBSA |-> <<"1">>],
      [ZIP |-> Z("6"), CBSA |-> <<"2">>], [ZIP |-> Z("7"), CBSA |-> <<"3">>] }
ZipPopCsv ==
    { [ZIP |-> Z("1"), POPULATION |-> <<"1", "0">>],
      [ZIP |-> Z("2"), POPULATION |-> <<"7">>],
      [ZIP |-> Z("6"), POPULATION |-> <<"1", "7">>],
      [ZIP |-> Z("7"), POPULATION |-> <<".">>] }

TractRow5(t, y, c) == [tract |-> t, YEAR |-> y, HPI |-> c]

\* hpi_at_bdl_tract.csv draws its rows from these: a tract of F1 over four
\* years of the window (both ends of it among them), the same tract in
\* the years next to the window, a second tract of F1, and a tract of
\* each of F2, F3 and F9.
HpiTractUniverse ==
    { TractRow5(F1 \o <<"1">>, y, c) : y \in {2005, 2006, 2012, 2013},
        c \in { <<"1", "2", "0">>, <<"8", "0">>, <<"N", "/", "A">>, <<"-", "5">> } }
    \cup { TractRow5(F1 \o <<"1">>, 2005, <<"0">>),
           TractRow5(F1 \o <<"1">>, 2006, <<".">>),
           TractRow5(F1 \o <<"1">>, 2004, <<"8", "0">>),
           TractRow5(F1 \o <<"1">>, 2014, <<"1", "2", "0">>),
           TractRow5(F1 \o <<"2">>, 2005, <<"8", "0">>),
           TractRow5(F2 \o <<"1">>, 2005, <<"8", "0">>),
           TractRow5(F3 \o <<"1">>, 2005, <<"8", "0">>),
           TractRow5(F9 \o <<"1">>, 2005, <<"8", "0">>) }

ZipRow(z, y, c) == [zip |-> z, YEAR |-> y, HPI |-> c]

\* hpi_zip5.csv draws its rows from these.
HpiZipUniverse ==
    { ZipRow(Z("1"), y, c) : y \in {2005, 2006, 2007},
        c \in { <<"1", "0", "0">>, <<"1", "3", "0">>, <<"9", "0">>,
                <<"N", "/", "A">>, <<"0">> } }
    \cup { ZipRow(Z("2"), 2005, <<"1", "0", "0">>),
           ZipRow(Z("2"), 2006, <<"9", "0">>),
           ZipRow(Z("1"), 2004, <<"2", "0", "0">>),
           ZipRow(Z("1"), 2014, <<"5", "0">>),
           ZipRow(Z("7"), 2014, <<"1", "0", "0">>),
           ZipRow(Z("7"), 2013, <<".">>) }

\* The files of the sample deployment the session runs are checked on.
SampleTractCsv ==
    { TractRow5(F1 \o <<"1">>, 2005, <<"1", "2", "0">>),
      TractRow5(F1 \o <<"1">>, 2012, <<"8", "0">>),
      TractRow5(F2 \o <<"1">>, 2005, <<"8", "0">>) }
SampleZipCsv ==
    { ZipRow(Z("1"), 2005, <<"1", "0", "0">>),
      ZipRow(Z("1"), 2006, <<"1", "3", "0">>),
      ZipRow(Z("1"), 2007, <<"9", "0">>),
      ZipRow(Z("7"), 2014, <<"1", "0", "0">>) }

RECURSIVE Bounded(_, _)
\* The subsets of U of at most n elements.
Bounded(U, n) ==
    IF n = 0 THEN {{}}
    ELSE LET B == Bounded(U, n - 1)
         IN  B \cup { S \cup {x} : S \in B, x \in U }

(* --------------------------- specifications --------------------------- *)

\* The tables every specification loads the same way.
InitFixedTables ==
    /\ zip_cbsa = ZipCbsaCsv
    /\ zip_attr = LoadZipAttr(ZipAttrCsv)
    /\ fips_cbsa = LoadFipsCbsa(FipsCbsaCsv)
    /\ cbsa = CbsaCsv

\* A session before its first script run.
InitSession ==
    /\ selected_cbsa = None
    /\ widget = None
    /\ cache = <<>>
    /\ now = 0
    /\ pc = "idle"
    /\ out_df = EmptyFrame
    /\ hpi_by_year = EmptyFrame
    /\ percent_loss = <<>>
    /\ total_population = <<>>
    /\ errors = <<>>
    /\ hits = {}
    /\ raised = "none"
    /\ started = FALSE

\* The session: any sequence of selections and reruns, with time passing,
\* over the sample files (with or without ZIP population figures).
Init ==
    /\ InitFixedTables
    /\ hpi_tract = LoadHpiTract(SampleTractCsv)
    /\ hpi_zip = LoadHpiZip(SampleZipCsv)
    /\ zip_pop \in {LoadZipPop(ZipPopCsv), {}}
    /\ InitSession

Next == Rerun \/ Sidebar \/ MainContent \/ Tick

Spec == Init /\ [][Next]_vars

\* The tract aggregation as a function of the tract file: the first script
\* run of a session on every tract file of at most MaxTractRows rows.
InitTract ==
    /\ InitFixedTables
    /\ hpi_tract \in { LoadHpiTract(csv) : csv \in Bounded(HpiTractUniverse, MaxTractRows) }
    /\ hpi_zip = LoadHpiZip(SampleZipCsv)
    /\ zip_pop = LoadZipPop(ZipPopCsv)
    /\ InitSession

\* The first script run of a session.
FirstRun == ~started /\ Rerun

NextRun == FirstRun \/ Sidebar \/ MainContent

SpecTract == InitTract /\ [][NextRun]_vars

\* The year series as a function of the ZIP file: the first script run of
\* a session on every ZIP file of at most MaxZipRows rows.
InitYear ==
    /\ InitFixedTables
    /\ hpi_tract = LoadHpiTract(SampleTractCsv)
    /\ hpi_zip \in { LoadHpiZip(csv) : csv \in Bounded(HpiZipUniverse, MaxZipRows) }
    /\ zip_pop = LoadZipPop(ZipPopCsv)
    /\ InitSession

SpecYear == InitYear /\ [][NextRun]_vars

(* ------------------------------ properties ---------------------------- *)

\* A run has ended (normally or by an exception).
RunEnded == started /\ pc = "idle"

\* The sidebar block of the run has ended.
SidebarEnded == pc = "main" \/ RunEnded

\* The rows of a frame whose rows are a bag.
Rows(df) == DOMAIN df.rows

\* Two names equal up to case.
SameName(a, b) ==
    /\ a # NULL /\ b # NULL
    /\ Len(a) = Len(b)
    /\ \A i \in 1..Len(a) : Lower(a[i]) = Lower(b[i])

\* The number a cell of the input files stands for, read off the cells the
\* files are drawn from: <<n>>, or <<>> for a cell that is no number.
CellNumber(cell) ==
    CASE cell = <<"1", "2", "0">> -> <<120>>
      [] cell = <<"8", "0">> -> <<80>>
      [] cell = <<"0">> -> <<0>>
      [] cell = <<"-", "5">> -> <<0 - 5>>
      [] cell = <<"1", "0">> -> <<10>>
      [] cell = <<"7">> -> <<7>>
      [] cell = <<"5">> -> <<5>>
      [] OTHER -> <<>>

\* The county codes of the CBSAs whose name is the given one up to case.
FipsOfName(name) ==
    { fc.fips : fc \in { fc \in fips_cbsa :
        \E c \in cbsa : c.code = fc.cbsacode /\ SameName(c.name, name) } }

\* C1: the tract aggregation has at most one row per (cbsa_name, fips):
\* no output row occurs twice and no two output rows share both.
C1_OneRowPerTract ==
    SidebarEnded =>
        /\ \A r \in Rows(out_df) : out_df.rows[r] = 1
        /\ \A r, q \in Rows(out_df) :
             (r.cbsa_name = q.cbsa_name /\ r.fips = q.fips) => r = q

\* C2: no tract row outside 2005..2013 contributes to the output: every
\* reported min_year (max_year) is a year of the window in which a row of
\* the group has a positive numeric HPI equal to min_hpi (max_hpi).
C2_OnlyWindowRowsContribute ==
    SidebarEnded =>
        \A r \in Rows(out_df) :
            /\ r.min_year # <<>> /\ r.max_year # <<>>
            /\ 2005 <= r.min_year[1] /\ r.min_year[1] <= 2013
            /\ 2005 <= r.max_year[1] /\ r.max_year[1] <= 2013
            /\ \E h \in hpi_tract : /\ h.fips = r.fips
                                    /\ h.YEAR = r.min_year[1]
                                    /\ CellNumber(h.HPI) = <<r.min_hpi>>
            /\ \E h \in hpi_tract : /\ h.fips = r.fips
                                    /\ h.YEAR = r.max_year[1]
                                    /\ CellNumber(h.HPI) = <<r.max_hpi>>

\* C3: in every row of the tract aggregation max_hpi > 0, min_hpi <=
\* max_hpi, the division is defined (never by zero) and hpi_loss, which
\* is min_hpi/max_hpi - 1, is <= 0.
C3_LossNonPositive ==
    SidebarEnded =>
        \A r \in Rows(out_df) :
            /\ r.max_hpi > 0
            /\ r.min_hpi <= r.max_hpi
            /\ r.hpi_loss # <<>>
            /\ r.hpi_loss[1].den # 0
            /\ RatEq(r.hpi_loss[1], Rat(r.min_hpi - r.max_hpi, r.max_hpi))
            /\ ~RatLess(Rat(0, 1), r.hpi_loss[1])

\* A tract aggregation with a row that lost value (min_hpi < max_hpi).
C3_Witness ==
    /\ pc = "main"
    /\ \E r \in Rows(out_df) :
         r.min_hpi < r.max_hpi /\ RatLess(r.hpi_loss[1], Rat(0, 1))

\* The messages st.error has surfaced in the run.
Surfaced == { errors[i] : i \in 1..Len(errors) }

\* C4: when the evaluation of a query fails inside run_query (the query
\* built from the selected name is malformed), run_query does not raise:
\* the caller gets the empty table, a diagnostic is surfaced, and the run
\* goes on past the call (no exception of the query ends it).
C4_RunQueryNeverRaises ==
    /\ raised \notin {"ParserException"}
    /\ (SidebarEnded /\ ~Execute(TractSql(selected_cbsa)).ok) =>
          /\ out_df = EmptyFrame
          /\ "Error running query" \in Surfaced
    /\ (pc = "sidebar" /\ ~Execute(TractSql(UpdateSession(selected_cbsa, widget))).ok) =>
          ENABLED (Sidebar /\ pc' = "main")
    /\ (RunEnded /\ Truthy(selected_cbsa)
          /\ ~Execute(YearSql(selected_cbsa)).ok) =>
          /\ hpi_by_year = EmptyFrame
          /\ Len(errors) >= 2

\* The sidebar block ended after a tract query that failed to evaluate.
C4_Witness ==
    /\ pc = "main"
    /\ selected_cbsa = NamedA
    /\ ~Execute(TractSql(selected_cbsa)).ok
    /\ out_df = EmptyFrame
    /\ errors = <<"Error running query">>

\* C5: when an aggregation result is empty, the consumer guards its
\* min/max/idxmax computations: no exception is raised in the rendering
\* part of the run.
C5_EmptyResultGuarded ==
    (RunEnded /\ (hpi_by_year.rows = <<>> \/ Rows(out_df) = {})) =>
        raised = "none"

\* A name matches no tract and no ZIP: no tract row lies in a county of a
\* CBSA of that name and no ZIP row belongs to a ZIP of such a CBSA.
MatchesNothing(name) ==
    /\ \A h \in hpi_tract : h.fips \notin FipsOfName(name)
    /\ \A h \in hpi_zip :
         ~\E zc \in zip_cbsa, c \in cbsa :
             zc.ZIP = h.zip /\ zc.CBSA = c.code /\ SameName(c.name, name)

\* C6: for a CBSA name that matches no tract and no ZIP, the tract query
\* and the year query return zero rows and produce no error.
C6_NoMatchIsEmptyNotError ==
    /\ (SidebarEnded /\ MatchesNothing(selected_cbsa)) =>
          /\ Rows(out_df) = {}
          /\ errors = <<>>
    /\ (RunEnded /\ Truthy(selected_cbsa) /\ MatchesNothing(selected_cbsa)) =>
          /\ hpi_by_year.rows = <<>>
          /\ errors = <<>>

\* The population of a tract: the sum of the distinct population figures
\* of the ZIP-attribute rows of its county.
TractPopulation(fips) ==
    SumSet({ CellNumber(za.population)[1] :
               za \in { za \in zip_attr : /\ za.county_fips = fips
                                          /\ CellNumber(za.population) # <<>> } })

RECURSIVE SumTractPopulation(_)
SumTractPopulation(F) ==
    IF F = {} THEN 0
    ELSE LET f == CHOOSE f \in F : TRUE
         IN  TractPopulation(f) + SumTractPopulation(F \ {f})

\* C7: the total population reported for a CBSA is the sum over its tracts
\* (the distinct fips of the result) of each tract's population, each
\* counted exactly once.
C7_TotalPopulationCountsEachTractOnce ==
    (RunEnded /\ total_population # <<>>) =>
        total_population[1] =
            SumTractPopulation({ r.fips : r \in Rows(out_df) })

\* The HPI values of a county that take part in the aggregation: those of
\* its rows with a year in 2005..2013 and a numeric HPI above 0.
Participating(fips) ==
    { CellNumber(h.HPI)[1] :
        h \in { h \in hpi_tract : /\ h.fips = fips
                                  /\ 2005 <= h.YEAR /\ h.YEAR <= 2013
                                  /\ CellNumber(h.HPI) # <<>>
                                  /\ CellNumber(h.HPI)[1] > 0 } }

\* C8: min_hpi and max_hpi of every group are the least and greatest HPI
\* over exactly the group's rows with a numeric HPI > 0 and a year in the
\* window; a county of the CBSA with no such row has no output row.
C8_OnlyPositiveNumericInWindow ==
    (SidebarEnded /\ Execute(TractSql(selected_cbsa)).ok) =>
        /\ \A r \in Rows(out_df) :
             /\ r.fips \in FipsOfName(selected_cbsa)
             /\ Participating(r.fips) # {}
             /\ r.min_hpi = MinOf(Participating(r.fips))
             /\ r.max_hpi = MaxOf(Participating(r.fips))
        /\ \A f \in FipsOfName(selected_cbsa) :
             Participating(f) # {} => \E r \in Rows(out_df) : r.fips = f

\* The tract file gives one county the values 120, "N/A", -5 and 80 in
\* four years of the window, and the result has max_hpi 120, min_hpi 80.
C8_Witness ==
    /\ pc = "main"
    /\ { h.HPI : h \in { h \in hpi_tract : h.fips = F1 } }
         = { <<"1", "2", "0">>, <<"N", "/", "A">>, <<"-", "5">>, <<"8", "0">> }
    /\ Cardinality({ h.YEAR : h \in hpi_tract }) = 4
    /\ \A h \in hpi_tract : 2005 <= h.YEAR /\ h.YEAR <= 2013
    /\ \E r \in Rows(out_df) : r.fips = F1 /\ r.max_hpi = 120 /\ r.min_hpi = 80

\* C9: for a non-empty year series the reported percentage drop is
\* (minAvg - maxAvg) / maxAvg * 100 for the global greatest and least
\* avg_hpi of the series, whatever their order in time; it is <= 0.
C9_PercentDropGlobalExtremes ==
    (RunEnded /\ hpi_by_year.rows # <<>>) =>
        /\ percent_loss # <<>>
        /\ \E a, b \in 1..Len(hpi_by_year.rows) :
             LET s == hpi_by_year.rows
                 maxAvg == s[a].avg_hpi
                 minAvg == s[b].avg_hpi
             IN  /\ \A j \in 1..Len(s) : ~RatLess(maxAvg, s[j].avg_hpi)
                 /\ \A j \in 1..Len(s) : ~RatLess(s[j].avg_hpi, minAvg)
                 /\ RatEq(percent_loss[1],
                          Rat((minAvg.num * maxAvg.den - maxAvg.num * minAvg.den)
                                * 100 * maxAvg.den,
                              minAvg.den * maxAvg.den * maxAvg.num))
        /\ ~RatLess(Rat(0, 1), percent_loss[1])

\* The series (2005, 100), (2006, 130), (2007, 90) and its drop of
\* (90 - 130) / 130 * 100.
C9_Witness ==
    /\ RunEnded
    /\ Len(hpi_by_year.rows) = 3
    /\ \A i \in 1..3 : hpi_by_year.rows[i].year = 2004 + i
    /\ RatEq(hpi_by_year.rows[1].avg_hpi, Rat(100, 1))
    /\ RatEq(hpi_by_year.rows[2].avg_hpi, Rat(130, 1))
    /\ RatEq(hpi_by_year.rows[3].avg_hpi, Rat(90, 1))
    /\ percent_loss # <<>>
    /\ RatEq(percent_loss[1], Rat((90 - 130) * 100, 130))

\* What a computation on the tables, with no cache, returns for a query.
Fresh(query) == Catch(Execute(query)).df

\* C10: in every run the session's selected_cbsa is the run's dropdown
\* value before either query is built, so the tract table and the year
\* series of the run are those of the CBSA selected in the run; whatever
\* the cache holds or serves equals a fresh computation of that query.
C10_RunShowsSelectedCbsa ==
    /\ SidebarEnded =>
          /\ selected_cbsa = widget
          /\ out_df = Fresh(TractSql(widget))
    /\ (RunEnded /\ Truthy(widget)) =>
          hpi_by_year = Fresh(YearSql(widget))
    /\ \A q \in DOMAIN cache : cache[q].df = Fresh(q)

\* A run whose tract table the cache served, after another CBSA had been
\* selected (its result is in the cache too) and the selection was changed.
C10_Witness ==
    /\ pc = "main"
    /\ TractSql(widget) \in hits
    /\ \E q \in DOMAIN cache : q.kind = "tract" /\ q # TractSql(widget)
    /\ Rows(out_df) # {}

====
